---- MODULE Spec2Model ----
(***************************************************************************)
(* The relational schema of src/models.py (users, posts, comments, likes,   *)
(* follows) as the tables it declares, with the inserts and deletes a       *)
(* session performs on them under the declared primary keys, unique         *)
(* constraints, foreign keys and relationship cascades; User.serialize; and *)
(* the diagram script under the __main__ guard.                             *)
(***************************************************************************)
EXTENDS Integers, Sequences, FiniteSets, TLC

(* ----------------------------- bounds --------------------------------- *)

\* ids the users.id column takes in the model: 1..MaxUserId
MaxUserId == 2
\* ids the posts.id column takes in the model: 1..MaxPostId
MaxPostId == 2
\* ids the comments.id column takes in the model: 1..MaxCommentId
MaxCommentId == 1
\* rows the five tables hold together, at most
MaxRows == 5
\* calls of User.serialize a behaviour makes, at most
MaxCalls == 1

UserIds == 1..MaxUserId
PostIds == 1..MaxPostId
CommentIds == 1..MaxCommentId

Usernames == {"ana", "bob"}
Emails == {"ana@x.io", "bob@x.io"}
Passwords == {"pbkdf2$1"}

\* Python's None, the value of a nullable column that was not set
None == "None"
FullNames == {None, "Ana Diaz"}

(* ----------------------------- datetime ------------------------------- *)

\* naive datetime values, as datetime.utcnow returns them
Timestamps ==
    [year : {987, 2024}, month : {1, 12}, day : {9}, hour : {0, 23},
     minute : {5}, second : {59}, microsecond : {0, 7, 123456}]

\* the readings of datetime.utcnow the column defaults draw from
UtcNow ==
    {[year |-> 2024, month |-> 12, day |-> 9, hour |-> 23,
      minute |-> 5, second |-> 59, microsecond |-> 123456]}

VARIABLES
    users,       \* table users: set of rows
    posts,       \* table posts: set of rows [id, user_id]
    comments,    \* table comments: set of rows [id, post_id, user_id]
    likes,       \* table likes: multiset of rows [user_id, post_id]
    follows,     \* table follows: multiset of rows [follower_id, followed_id]
    error,       \* what the last commit raised, or "none"
    cascade,     \* relationships along which the last commit deleted rows
    serialized,  \* calls of User.serialize made so far: <<[self, value]>>
    name,        \* __name__ of the module in the current run
    pc,          \* line the module's top-level code is at (149-155), or how it ended
    stdout,      \* messages printed so far
    raised       \* <<statement, exception>> raised so far, in order

vars == <<users, posts, comments, likes, follows, error, cascade, serialized,
          name, pc, stdout, raised>>

(* ----------------------------- tables --------------------------------- *)

\* class User, columns of lines 16-22
UserRows ==
    [id : UserIds, username : Usernames, email : Emails, full_name : FullNames,
     password : Passwords, is_active : BOOLEAN, created_at : Timestamps]

\* class Post: id and user_id; image_url, caption and created_at take part
\* in no constraint and no relationship and are left out of the row
PostRows == [id : PostIds, user_id : UserIds]

\* class Comment: id, post_id, user_id (content, created_at left out)
CommentRows == [id : CommentIds, post_id : PostIds, user_id : UserIds]

\* class Like: the two key columns (created_at left out)
LikeRows == [user_id : UserIds, post_id : PostIds]

\* class Follow: the two key columns (created_at left out)
FollowRows == [follower_id : UserIds, followed_id : UserIds]

\* likes and follows are multisets, row |-> number of stored copies: with
\* created_at left out two rows of one pair are equal, and a table holds
\* both unless a constraint rejects the second
NoRows == [r \in {} |-> 0]

\* the table with one more copy of the row
Add(table, row) ==
    [r \in DOMAIN table \cup {row} |->
        IF r # row THEN table[r]
        ELSE IF row \in DOMAIN table THEN table[row] + 1 ELSE 1]

\* the table without the rows of the set
Remove(table, rows) == [r \in DOMAIN table \ rows |-> table[r]]

RECURSIVE Copies(_, _)
Copies(table, rows) ==
    IF rows = {} THEN 0
    ELSE LET r == CHOOSE x \in rows : TRUE
         IN table[r] + Copies(table, rows \ {r})

Rows ==
    Cardinality(users) + Cardinality(posts) + Cardinality(comments)
        + Copies(likes, DOMAIN likes) + Copies(follows, DOMAIN follows)

(* --------------------------- relationships ---------------------------- *)

\* User.posts: the Posts whose user_id is the user's id
User_posts(u) == {p \in posts : p.user_id = u.id}

\* User.comments
User_comments(u) == {c \in comments : c.user_id = u.id}

\* User.likes joined on the wrong column of likes
User_likes_WrongColumn(u) == {l \in DOMAIN likes : l.post_id = u.id}

\* User.likes
User_likes(u) == {l \in DOMAIN likes : l.user_id = u.id}

\* User.followers without the delete cascade
User_followers_NoCascade(u) == {}

\* User.followers, foreign_keys = Follow.followed_id
User_followers(u) == {f \in DOMAIN follows : f.followed_id = u.id}

\* User.following, foreign_keys = Follow.follower_id
User_following(u) == {f \in DOMAIN follows : f.follower_id = u.id}

\* Post.comments
Post_comments(p) == {c \in comments : c.post_id = p.id}

\* Post.likes without the delete cascade
Post_likes_NoCascade(p) == {}

\* Post.likes
Post_likes(p) == {l \in DOMAIN likes : l.post_id = p.id}

(* ------------------------------ inserts ------------------------------- *)

\* the foreign keys of the schema, by table.column
ForeignKeys ==
    {"posts.user_id", "comments.post_id", "comments.user_id", "likes.user_id",
     "likes.post_id", "follows.follower_id", "follows.followed_id"}

\* what the database reports for a violated constraint: a primary key and a
\* UniqueConstraint are both uniqueness constraints
Violation(k) ==
    IF k \in ForeignKeys THEN "ForeignKeyViolation" ELSE "UniqueViolation"

\* session.add(row); session.commit(): the commit either stores the row, or
\* raises IntegrityError for one of the constraints the row violates (the
\* database reports the one it meets first) and stores nothing
Commit(violated, accept) ==
    IF violated = {}
    THEN /\ error' = "none"
         /\ cascade' = {}
         /\ Rows < MaxRows
         /\ accept
    ELSE /\ error' \in {Violation(k) : k \in violated}
         /\ cascade' = {}
         /\ UNCHANGED <<users, posts, comments, likes, follows>>

\* table users without unique=True on email
UserViolations_NoEmail(row) ==
    {k \in {"users.pk", "users.username"} :
        \/ k = "users.pk" /\ \E u \in users : u.id = row.id
        \/ k = "users.username" /\ \E u \in users : u.username = row.username}

\* constraints of table users an INSERT of the row violates
UserViolations(row) ==
    {k \in {"users.pk", "users.username", "users.email"} :
        \/ k = "users.pk" /\ \E u \in users : u.id = row.id
        \/ k = "users.username" /\ \E u \in users : u.username = row.username
        \/ k = "users.email" /\ \E u \in users : u.email = row.email}

InsertUser(row) ==
    /\ Commit(UserViolations(row),
              /\ users' = users \cup {row}
              /\ UNCHANGED <<posts, comments, likes, follows>>)
    /\ UNCHANGED <<serialized, name, pc, stdout, raised>>

\* table posts without the ForeignKey on user_id
PostViolations_NoForeignKey(row) ==
    {k \in {"posts.pk"} : \E p \in posts : p.id = row.id}

\* constraints of table posts an INSERT of the row violates
PostViolations(row) ==
    {k \in {"posts.pk", "posts.user_id"} :
        \/ k = "posts.pk" /\ \E p \in posts : p.id = row.id
        \/ k = "posts.user_id" /\ ~ \E u \in users : u.id = row.user_id}

InsertPost(row) ==
    /\ Commit(PostViolations(row),
              /\ posts' = posts \cup {row}
              /\ UNCHANGED <<users, comments, likes, follows>>)
    /\ UNCHANGED <<serialized, name, pc, stdout, raised>>

\* constraints of table comments an INSERT of the row violates
CommentViolations(row) ==
    {k \in {"comments.pk", "uq_comment_per_post", "comments.post_id",
            "comments.user_id"} :
        \/ k = "comments.pk" /\ \E c \in comments : c.id = row.id
        \/ k = "uq_comment_per_post"
             /\ \E c \in comments : c.id = row.id /\ c.post_id = row.post_id
        \/ k = "comments.post_id" /\ ~ \E p \in posts : p.id = row.post_id
        \/ k = "comments.user_id" /\ ~ \E u \in users : u.id = row.user_id}

InsertComment(row) ==
    /\ Commit(CommentViolations(row),
              /\ comments' = comments \cup {row}
              /\ UNCHANGED <<users, posts, likes, follows>>)
    /\ UNCHANGED <<serialized, name, pc, stdout, raised>>

\* table likes with no primary key over (user_id, post_id)
LikeViolations_NoPrimaryKey(row) ==
    {k \in {"likes.user_id", "likes.post_id"} :
        \/ k = "likes.user_id" /\ ~ \E u \in users : u.id = row.user_id
        \/ k = "likes.post_id" /\ ~ \E p \in posts : p.id = row.post_id}

\* constraints of table likes an INSERT of the row violates
LikeViolations(row) ==
    {k \in {"likes.pk", "likes.user_id", "likes.post_id"} :
        \/ k = "likes.pk" /\ row \in DOMAIN likes
        \/ k = "likes.user_id" /\ ~ \E u \in users : u.id = row.user_id
        \/ k = "likes.post_id" /\ ~ \E p \in posts : p.id = row.post_id}

InsertLike(row) ==
    /\ Commit(LikeViolations(row),
              /\ likes' = Add(likes, row)
              /\ UNCHANGED <<users, posts, comments, follows>>)
    /\ UNCHANGED <<serialized, name, pc, stdout, raised>>

\* table follows whose key takes a pair and its reverse for the same pair
FollowViolations_Unordered(row) ==
    {k \in {"follows.pk", "uq_follow_once", "follows.follower_id",
            "follows.followed_id"} :
        \/ k \in {"follows.pk", "uq_follow_once"}
             /\ \/ row \in DOMAIN follows
                \/ [follower_id |-> row.followed_id, followed_id |-> row.follower_id]
                       \in DOMAIN follows
        \/ k = "follows.follower_id" /\ ~ \E u \in users : u.id = row.follower_id
        \/ k = "follows.followed_id" /\ ~ \E u \in users : u.id = row.followed_id}

\* table follows with a CHECK (follower_id <> followed_id)
FollowViolations_NoSelfFollow(row) ==
    {k \in {"follows.pk", "uq_follow_once", "ck_no_self_follow",
            "follows.follower_id", "follows.followed_id"} :
        \/ k \in {"follows.pk", "uq_follow_once"} /\ row \in DOMAIN follows
        \/ k = "ck_no_self_follow" /\ row.follower_id = row.followed_id
        \/ k = "follows.follower_id" /\ ~ \E u \in users : u.id = row.follower_id
        \/ k = "follows.followed_id" /\ ~ \E u \in users : u.id = row.followed_id}

\* constraints of table follows an INSERT of the row violates
FollowViolations(row) ==
    {k \in {"follows.pk", "uq_follow_once", "follows.follower_id",
            "follows.followed_id"} :
        \/ k \in {"follows.pk", "uq_follow_once"} /\ row \in DOMAIN follows
        \/ k = "follows.follower_id" /\ ~ \E u \in users : u.id = row.follower_id
        \/ k = "follows.followed_id" /\ ~ \E u \in users : u.id = row.followed_id}

InsertFollow(row) ==
    /\ Commit(FollowViolations(row),
              /\ follows' = Add(follows, row)
              /\ UNCHANGED <<users, posts, comments, likes>>)
    /\ UNCHANGED <<serialized, name, pc, stdout, raised>>

(* ------------------------------ deletes ------------------------------- *)

\* the relationships of User and, through User.posts, of Post, each with the
\* rows a delete of u reaches along it (cascade="all, delete-orphan" on each)
UserCascade(u) ==
    [r \in {"User.posts", "User.comments", "User.likes", "User.followers",
            "User.following", "Post.comments", "Post.likes"} |->
        CASE r = "User.posts" -> User_posts(u)
          [] r = "User.comments" -> User_comments(u)
          [] r = "User.likes" -> User_likes(u)
          [] r = "User.followers" -> User_followers(u)
          [] r = "User.following" -> User_following(u)
          [] r = "Post.comments" -> UNION {Post_comments(p) : p \in User_posts(u)}
          [] r = "Post.likes" -> UNION {Post_likes(p) : p \in User_posts(u)}]

\* session.delete(user); session.commit(): the delete cascades along
\* User.posts (and from each Post along Post.comments and Post.likes),
\* User.comments, User.likes, User.followers and User.following
DeleteUser(u) ==
    /\ u \in users
    /\ LET reach == UserCascade(u)
       IN /\ users' = users \ {u}
          /\ posts' = posts \ reach["User.posts"]
          /\ comments' = comments \ (reach["User.comments"] \cup reach["Post.comments"])
          /\ likes' = Remove(likes, reach["User.likes"] \cup reach["Post.likes"])
          /\ follows' = Remove(follows, reach["User.followers"]
                                          \cup reach["User.following"])
          /\ cascade' = {r \in DOMAIN reach : reach[r] # {}}
    /\ error' = "none"
    /\ UNCHANGED <<serialized, name, pc, stdout, raised>>

\* session.delete(post): cascades along Post.comments and Post.likes
DeletePost(p) ==
    /\ p \in posts
    /\ posts' = posts \ {p}
    /\ comments' = comments \ Post_comments(p)
    /\ likes' = Remove(likes, Post_likes(p))
    /\ cascade' = {r \in {"Post.comments", "Post.likes"} :
                      \/ r = "Post.comments" /\ Post_comments(p) # {}
                      \/ r = "Post.likes" /\ Post_likes(p) # {}}
    /\ error' = "none"
    /\ UNCHANGED <<users, follows, serialized, name, pc, stdout, raised>>

\* session.delete(comment): Comment declares no cascade of its own
DeleteComment(c) ==
    /\ c \in comments
    /\ comments' = comments \ {c}
    /\ error' = "none"
    /\ cascade' = {}
    /\ UNCHANGED <<users, posts, likes, follows, serialized, name, pc, stdout, raised>>

\* session.delete(like)
DeleteLike(l) ==
    /\ l \in DOMAIN likes
    /\ likes' = Remove(likes, {l})
    /\ error' = "none"
    /\ cascade' = {}
    /\ UNCHANGED <<users, posts, comments, follows, serialized, name, pc, stdout, raised>>

\* session.delete(follow)
DeleteFollow(f) ==
    /\ f \in DOMAIN follows
    /\ follows' = Remove(follows, {f})
    /\ error' = "none"
    /\ cascade' = {}
    /\ UNCHANGED <<users, posts, comments, likes, serialized, name, pc, stdout, raised>>

(* ------------------------- the database machine ----------------------- *)

\* rows a session inserts into users: the three required columns are given,
\* full_name stays None, is_active and created_at take their column defaults
NewUsers ==
    [id : UserIds, username : Usernames, email : Emails, full_name : {None},
     password : Passwords, is_active : {TRUE}, created_at : UtcNow]

\* the module was imported by the application (its top-level code ran to
\* the end under a name other than __main__) and the tables are empty
Init ==
    /\ users = {}
    /\ posts = {}
    /\ comments = {}
    /\ likes = NoRows
    /\ follows = NoRows
    /\ error = "none"
    /\ cascade = {}
    /\ serialized = <<>>
    /\ name = "models"
    /\ pc = "exit"
    /\ stdout = <<>>
    /\ raised = <<>>

Next ==
    \/ \E row \in NewUsers : InsertUser(row)
    \/ \E row \in PostRows : InsertPost(row)
    \/ \E row \in CommentRows : InsertComment(row)
    \/ \E row \in LikeRows : InsertLike(row)
    \/ \E row \in FollowRows : InsertFollow(row)
    \/ \E u \in users : DeleteUser(u)
    \/ \E p \in posts : DeletePost(p)
    \/ \E c \in comments : DeleteComment(c)
    \/ \E l \in DOMAIN likes : DeleteLike(l)
    \/ \E f \in DOMAIN follows : DeleteFollow(f)

Spec == Init /\ [][Next]_vars

(* --------------------------- User.serialize --------------------------- *)

Digits == <<"0", "1", "2", "3", "4", "5", "6", "7", "8", "9">>

RECURSIVE Pow10(_)
Pow10(k) == IF k = 0 THEN 1 ELSE 10 * Pow10(k - 1)

\* "%0wd" % n, as a sequence of characters (0 <= n < 10^w)
Pad(n, w) == [i \in 1..w |-> Digits[((n \div Pow10(w - i)) % 10) + 1]]

\* datetime.isoformat() of a naive datetime: YYYY-MM-DDTHH:MM:SS, followed
\* by .ffffff when the microsecond is not 0
isoformat(dt) ==
    Pad(dt.year, 4) \o <<"-">> \o Pad(dt.month, 2) \o <<"-">> \o Pad(dt.day, 2)
        \o <<"T">> \o Pad(dt.hour, 2) \o <<":">> \o Pad(dt.minute, 2)
        \o <<":">> \o Pad(dt.second, 2)
        \o (IF dt.microsecond # 0 THEN <<".">> \o Pad(dt.microsecond, 6) ELSE <<>>)

\* serialize returning every column of the row, the password with them
serialize_WithPassword(self) ==
    [id |-> self.id,
     username |-> self.username,
     email |-> self.email,
     full_name |-> self.full_name,
     password |-> self.password,
     is_active |-> self.is_active,
     created_at |-> isoformat(self.created_at)]

\* User.serialize
serialize(self) ==
    [id |-> self.id,
     username |-> self.username,
     email |-> self.email,
     full_name |-> self.full_name,
     is_active |-> self.is_active,
     created_at |-> isoformat(self.created_at)]

\* a call u.serialize() on a stored user
Serialize(u) ==
    /\ u \in users
    /\ Len(serialized) < MaxCalls
    /\ serialized' = Append(serialized, [self |-> u, value |-> serialize(u)])
    /\ UNCHANGED <<users, posts, comments, likes, follows, error, cascade,
                   name, pc, stdout, raised>>

(* ------------------------- the diagram script -------------------------- *)

\* __name__ when the file is run (python models.py) or imported
ModuleNames == {"__main__", "models"}

\* what a statement can raise; KeyboardInterrupt and SystemExit derive from
\* BaseException and not from Exception
Exceptions == {"ModuleNotFoundError", "OSError", "KeyboardInterrupt", "SystemExit"}

\* a bare "except:", which catches every BaseException
IsException_CatchAll(e) == TRUE

\* isinstance(e, Exception): what "except Exception" catches
IsException(e) == e \notin {"KeyboardInterrupt", "SystemExit", "GeneratorExit"}

Success == [text |-> "diagrama generado en diagram.png", arg |-> None]
Warning(e) == [text |-> "No se pudo generar el diagrama:", arg |-> e]

\* a statement inside the try block raises e: the except clause takes it
\* when it is an Exception, otherwise it leaves the module uncaught
RaiseInTry(stmt, e) ==
    /\ raised' = Append(raised, <<stmt, e>>)
    /\ pc' = IF IsException(e) THEN "line155" ELSE "traceback"
    /\ UNCHANGED stdout

\* line 149: if __name__ == "__main__"
Guard ==
    /\ pc = "line149"
    /\ pc' = IF name = "__main__" THEN "line151" ELSE "exit"
    /\ UNCHANGED <<users, posts, comments, likes, follows, error, cascade, serialized,
                   name, stdout, raised>>

\* line 151: from eralchemy2 import render_er
Import ==
    /\ pc = "line151"
    /\ \/ pc' = "line152" /\ UNCHANGED <<stdout, raised>>
       \/ \E e \in Exceptions : RaiseInTry("import", e)
    /\ UNCHANGED <<users, posts, comments, likes, follows, error, cascade, serialized, name>>

\* line 152: render_er(db.Model, "diagram.png")
Render ==
    /\ pc = "line152"
    /\ \/ pc' = "line153" /\ UNCHANGED <<stdout, raised>>
       \/ \E e \in Exceptions : RaiseInTry("render", e)
    /\ UNCHANGED <<users, posts, comments, likes, follows, error, cascade, serialized, name>>

\* line 153: print of the success message, the last statement of the try
PrintSuccess ==
    /\ pc = "line153"
    /\ \/ /\ stdout' = Append(stdout, Success)
          /\ pc' = "exit"
          /\ UNCHANGED raised
       \/ \E e \in Exceptions : RaiseInTry("print", e)
    /\ UNCHANGED <<users, posts, comments, likes, follows, error, cascade, serialized, name>>

\* lines 154-155: except Exception as e: print of the warning and e; what
\* this print raises is raised outside the try and leaves the module
PrintWarning ==
    /\ pc = "line155"
    /\ \/ /\ stdout' = Append(stdout, Warning(raised[Len(raised)][2]))
          /\ pc' = "exit"
          /\ UNCHANGED raised
       \/ \E e \in Exceptions :
             /\ raised' = Append(raised, <<"handler", e>>)
             /\ pc' = "traceback"
             /\ UNCHANGED stdout
    /\ UNCHANGED <<users, posts, comments, likes, follows, error, cascade, serialized, name>>

(* ------------------------- the module machine -------------------------- *)

\* the interpreter starts executing the file, under either name, with one
\* user loaded from the table
InitModule ==
    /\ \E u \in UserRows : users = {u}
    /\ posts = {}
    /\ comments = {}
    /\ likes = NoRows
    /\ follows = NoRows
    /\ error = "none"
    /\ cascade = {}
    /\ serialized = <<>>
    /\ name \in ModuleNames
    /\ pc = "line149"
    /\ stdout = <<>>
    /\ raised = <<>>

NextModule ==
    \/ \E u \in users : Serialize(u)
    \/ Guard
    \/ Import
    \/ Render
    \/ PrintSuccess
    \/ PrintWarning

SpecModule == InitModule /\ [][NextModule]_vars

(* ------------------------------ claims --------------------------------- *)

StoredUserIds == {u.id : u \in users}
StoredPostIds == {p.id : p \in posts}

\* the five tables
tables == <<users, posts, comments, likes, follows>>

\* C1: a stored User U can be deleted, and the delete leaves no Post, Comment
\* or Like whose user_id is U's id and no Follow whose follower_id or
\* followed_id is U's id
C1_UserDeleteCascades ==
    \A u \in users :
        /\ ENABLED DeleteUser(u)
        /\ ~ ENABLED
              /\ DeleteUser(u)
              /\ ~ /\ u \notin users'
                   /\ \A p \in posts' : p.user_id # u.id
                   /\ \A c \in comments' : c.user_id # u.id
                   /\ \A l \in DOMAIN likes' : l.user_id # u.id
                   /\ \A f \in DOMAIN follows' :
                         f.follower_id # u.id /\ f.followed_id # u.id

\* a User was deleted who had posts, comments, likes, followers and followings
C1_Witness ==
    /\ error = "none"
    /\ {"User.posts", "User.comments", "User.likes", "User.followers",
        "User.following"} \subseteq cascade

\* C2: a stored Post P can be deleted, and the delete leaves no Comment and
\* no Like whose post_id is P's id, whoever wrote them
C2_PostDeleteCascades ==
    \A p \in posts :
        /\ ENABLED DeletePost(p)
        /\ ~ ENABLED
              /\ DeletePost(p)
              /\ ~ /\ p \notin posts'
                   /\ \A c \in comments' : c.post_id # p.id
                   /\ \A l \in DOMAIN likes' : l.post_id # p.id

\* a Post with a comment and a like was deleted, its author was not
C2_Witness ==
    /\ cascade = {"Post.comments", "Post.likes"}
    /\ Cardinality(users) = 2

ForeignKeysHold ==
    /\ \A p \in posts : p.user_id \in StoredUserIds
    /\ \A c \in comments : c.user_id \in StoredUserIds /\ c.post_id \in StoredPostIds
    /\ \A l \in DOMAIN likes : l.user_id \in StoredUserIds /\ l.post_id \in StoredPostIds
    /\ \A f \in DOMAIN follows :
          f.follower_id \in StoredUserIds /\ f.followed_id \in StoredUserIds

\* C3: in every reachable state every foreign key is the id of a stored row,
\* and an insert of a Post whose user_id is the id of no stored User can only
\* raise and store nothing
C3_ReferentialIntegrity ==
    /\ ForeignKeysHold
    /\ \A row \in PostRows :
          row.user_id \notin StoredUserIds =>
             /\ ENABLED InsertPost(row)
             /\ ~ ENABLED (InsertPost(row) /\ ~ (error' # "none" /\ UNCHANGED tables))

\* all four kinds of referring rows are stored and an insert was just
\* rejected for its foreign key
C3_Witness ==
    /\ error = "ForeignKeyViolation"
    /\ posts # {}
    /\ comments # {}
    /\ DOMAIN likes # {}
    /\ DOMAIN follows # {}

\* C4: no two stored Users share a username or an email, and an insert of a
\* User whose username or email is taken can only raise a uniqueness
\* violation and leave the tables as they were
C4_UniqueUsers ==
    /\ \A u, v \in users : u # v => u.username # v.username /\ u.email # v.email
    /\ \A row \in NewUsers :
          (\E u \in users : u.username = row.username \/ u.email = row.email) =>
             /\ ENABLED InsertUser(row)
             /\ ~ ENABLED (/\ InsertUser(row)
                           /\ ~ (error' = "UniqueViolation" /\ UNCHANGED tables))

\* every username and email is taken, only users are stored, and the last
\* commit raised a uniqueness violation
C4_Witness ==
    /\ error = "UniqueViolation"
    /\ {u.username : u \in users} = Usernames
    /\ {u.email : u \in users} = Emails
    /\ posts = {} /\ comments = {} /\ DOMAIN likes = {} /\ DOMAIN follows = {}

\* C5: a (user_id, post_id) pair has at most one Like row; an insert for a
\* pair that has one can only raise a uniqueness violation and store nothing;
\* an insert for a pair that has none, of a stored User and a stored Post,
\* can only store the row (and the table has room for it below MaxRows),
\* whatever other likes the User gave or the Post got
C5_OneLikePerPair ==
    /\ \A l \in DOMAIN likes : likes[l] = 1
    /\ \A row \in LikeRows :
          IF row \in DOMAIN likes
          THEN /\ ENABLED InsertLike(row)
               /\ ~ ENABLED (/\ InsertLike(row)
                             /\ ~ (error' = "UniqueViolation" /\ UNCHANGED tables))
          ELSE (row.user_id \in StoredUserIds /\ row.post_id \in StoredPostIds) =>
                  /\ Rows < MaxRows => ENABLED InsertLike(row)
                  /\ ~ ENABLED (/\ InsertLike(row)
                                /\ ~ (error' = "none" /\ row \in DOMAIN likes'))

\* one User likes two Posts and the last commit raised a uniqueness violation
C5_Witness ==
    /\ error = "UniqueViolation"
    /\ \E l1, l2 \in DOMAIN likes : l1.user_id = l2.user_id /\ l1.post_id # l2.post_id

\* C6: an ordered (follower_id, followed_id) pair has at most one Follow row;
\* an insert for a pair that has one can only raise a uniqueness violation
\* and store nothing; an insert for a pair of stored Users that has none can
\* only store the row (and the table has room for it below MaxRows), also
\* when the reverse pair is stored
C6_OneFollowPerOrderedPair ==
    /\ \A f \in DOMAIN follows : follows[f] = 1
    /\ \A row \in FollowRows :
          IF row \in DOMAIN follows
          THEN /\ ENABLED InsertFollow(row)
               /\ ~ ENABLED (/\ InsertFollow(row)
                             /\ ~ (error' = "UniqueViolation" /\ UNCHANGED tables))
          ELSE (row.follower_id \in StoredUserIds /\ row.followed_id \in StoredUserIds) =>
                  /\ Rows < MaxRows => ENABLED InsertFollow(row)
                  /\ ~ ENABLED (/\ InsertFollow(row)
                                /\ ~ (error' = "none" /\ row \in DOMAIN follows'))

\* a pair and its reverse are both stored and the last commit raised a
\* uniqueness violation
C6_Witness ==
    /\ error = "UniqueViolation"
    /\ \E f \in DOMAIN follows :
          /\ f.follower_id # f.followed_id
          /\ [follower_id |-> f.followed_id, followed_id |-> f.follower_id]
                \in DOMAIN follows

\* C8: an insert of a Follow of a stored User to themself, when no such row
\* is stored, can only store the row (and the table has room for it below
\* MaxRows); a delete of a User who follows themself removes that row
C8_SelfFollow ==
    \A u \in users :
        LET self == [follower_id |-> u.id, followed_id |-> u.id]
        IN IF self \in DOMAIN follows
           THEN ~ ENABLED (DeleteUser(u) /\ self \in DOMAIN follows')
           ELSE /\ Rows < MaxRows => ENABLED InsertFollow(self)
                /\ ~ ENABLED (/\ InsertFollow(self)
                              /\ ~ (error' = "none" /\ self \in DOMAIN follows'))

\* a self-follow row is stored, after the delete of a User who was follower
\* and followed in no row but their own
C8_Witness ==
    /\ cascade = {"User.followers", "User.following"}
    /\ Cardinality(users) = 1
    /\ \E f \in DOMAIN follows : f.follower_id = f.followed_id

\* C10: a delete of a User U removes U, U's Posts, the Comments and Likes
\* that are U's or are on U's Posts, and the Follows that name U, and leaves
\* every other row as it was
C10_UserDeleteFrame ==
    \A u \in users :
        LET own == {p \in posts : p.user_id = u.id}
            ownIds == {p.id : p \in own}
            keptLikes == {l \in DOMAIN likes :
                             l.user_id # u.id /\ l.post_id \notin ownIds}
            keptFollows == {f \in DOMAIN follows :
                               f.follower_id # u.id /\ f.followed_id # u.id}
        IN ~ ENABLED
              /\ DeleteUser(u)
              /\ ~ /\ users' = users \ {u}
                   /\ posts' = posts \ own
                   /\ comments' = {c \in comments :
                                      c.user_id # u.id /\ c.post_id \notin ownIds}
                   /\ DOMAIN likes' = keptLikes
                   /\ \A l \in keptLikes : likes'[l] = likes[l]
                   /\ DOMAIN follows' = keptFollows
                   /\ \A f \in keptFollows : follows'[f] = follows[f]

\* a User was deleted whose Post carried another User's comment; that User
\* and their Follow row are still stored
C10_Witness ==
    /\ cascade = {"User.posts", "Post.comments"}
    /\ users # {}
    /\ DOMAIN follows # {}

\* the number the characters a..b of the text spell, or -1 when one of them
\* is no digit
RECURSIVE Number(_, _, _)
Number(text, a, b) ==
    IF b < a THEN 0
    ELSE LET rest == Number(text, a, b - 1)
         IN IF rest < 0 \/ \A d \in 0..9 : Digits[d + 1] # text[b] THEN -1
            ELSE 10 * rest + (CHOOSE d \in 0..9 : Digits[d + 1] = text[b])

\* the text is the ISO-8601 extended form YYYY-MM-DDTHH:MM:SS[.ffffff] of dt
IsIso8601Of(text, dt) ==
    /\ Len(text) \in {19, 26}
    /\ text[5] = "-" /\ text[8] = "-" /\ text[11] = "T"
    /\ text[14] = ":" /\ text[17] = ":"
    /\ Number(text, 1, 4) = dt.year
    /\ Number(text, 6, 7) = dt.month
    /\ Number(text, 9, 10) = dt.day
    /\ Number(text, 12, 13) = dt.hour
    /\ Number(text, 15, 16) = dt.minute
    /\ Number(text, 18, 19) = dt.second
    /\ IF Len(text) = 19 THEN dt.microsecond = 0
       ELSE text[20] = "." /\ Number(text, 21, 26) = dt.microsecond

\* C7: User.serialize returns a mapping whose keys are exactly id, username,
\* email, full_name, is_active and created_at (password is none of them);
\* the first five values are the User's, full_name also when it is None, and
\* created_at is the ISO-8601 text of the User's timestamp
C7_SerializeUser ==
    \A i \in 1..Len(serialized) :
        LET self == serialized[i].self
            value == serialized[i].value
        IN /\ DOMAIN value = {"id", "username", "email", "full_name", "is_active",
                              "created_at"}
           /\ "password" \notin DOMAIN value
           /\ value.id = self.id
           /\ value.username = self.username
           /\ value.email = self.email
           /\ value.full_name = self.full_name
           /\ value.is_active = self.is_active
           /\ IsIso8601Of(value.created_at, self.created_at)

\* a User without full_name, created in the year 987 at microsecond 7, was
\* serialized
C7_Witness ==
    \E i \in 1..Len(serialized) :
        /\ serialized[i].self.full_name = None
        /\ serialized[i].self.created_at.year = 987
        /\ serialized[i].self.created_at.microsecond = 7

\* the run of the file as a script has ended
Ended == name = "__main__" /\ pc \in {"exit", "traceback"}

\* the positions in raised of what the statements raised
RaisedBy(stmts) == {i \in 1..Len(raised) : raised[i][1] \in stmts}

Printed == {stdout[i] : i \in 1..Len(stdout)}

\* the exceptions that do not derive from Exception
OutsideException == {"KeyboardInterrupt", "SystemExit"}

\* C9 as claimed: whatever the import or the renderer raises is caught and
\* printed as the warning and the script ends normally; the success message
\* is printed only when they raised nothing; every run prints exactly one of
\* the two messages
C9_AnyExceptionCaught ==
    Ended =>
        /\ \A i \in RaisedBy({"import", "render"}) :
              pc = "exit" /\ stdout = <<Warning(raised[i][2])>>
        /\ Success \in Printed => RaisedBy({"import", "render"}) = {}
        /\ Len(stdout) = 1

\* C9, amended: an exception deriving from Exception that the import or the
\* renderer raises is caught and the warning is printed, and when that print
\* returns the script ends normally; one that does not derive from Exception
\* leaves the script uncaught, with nothing printed; the success message is
\* printed only when the import and the renderer raised nothing; a run in
\* which no print raises and nothing outside Exception is raised ends
\* normally with exactly one of the two messages printed
C9_ExceptionCaught ==
    Ended =>
        /\ \A i \in RaisedBy({"import", "render"}) :
              IF raised[i][2] \in OutsideException
              THEN pc = "traceback" /\ stdout = <<>>
              ELSE IF RaisedBy({"handler"}) = {}
                   THEN pc = "exit" /\ stdout = <<Warning(raised[i][2])>>
                   ELSE pc = "traceback" /\ stdout = <<>>
        /\ Success \in Printed => RaisedBy({"import", "render"}) = {}
        /\ (/\ RaisedBy({"print", "handler"}) = {}
            /\ \A i \in 1..Len(raised) : raised[i][2] \notin OutsideException)
           => /\ pc = "exit"
              /\ Len(stdout) = 1
              /\ stdout[1] = Success \/ \E e \in Exceptions : stdout[1] = Warning(e)

\* the renderer raised OSError, the warning was printed with it and the
\* script ended normally
C9_Witness ==
    /\ Ended
    /\ pc = "exit"
    /\ raised = << <<"render", "OSError">> >>
    /\ stdout = <<Warning("OSError")>>

====
